---- MODULE Spec2Model ----
(***************************************************************************)
(* Job-posting quality scoring and cohort selection of the district report *)
(* generator (src/app.py, class DistrictReportGenerator).                  *)
(*                                                                         *)
(* _generate_quality_report is modelled as a loop: one ScoreJob step per   *)
(* posting of the input list, then Finish for the code after the loop.     *)
(* _compare_wages_to_nearby is modelled the same way (CompareWagesJob).    *)
(* _analyze_jobs_for_hr, _generate_chart_data and generate_school_hr_report*)
(* are modelled as one step each over the whole list of postings.          *)
(*                                                                         *)
(* Python values are tagged records of one shape, strings are sequences of *)
(* tokens joined by single blanks (a token is a word, or a block of plain  *)
(* filler text of a known number of characters and words).                 *)
(***************************************************************************)
EXTENDS Integers, Sequences, FiniteSets, TLC

VARIABLES pc, jobs, job, job_analysis, quality_issues, top_jobs,
          opportunities, word_counts, result, district_wages,
          now, analysis, charts, report,
          main_script, stmt, url_map, flask_pc, served

vars == <<pc, jobs, job, job_analysis, quality_issues, top_jobs,
          opportunities, word_counts, result, district_wages,
          now, analysis, charts, report,
          main_script, stmt, url_map, flask_pc, served>>

flask_vars == <<main_script, stmt, url_map, flask_pc, served>>

-----------------------------------------------------------------------------
(* Python values *)

Absent == [t |-> "absent", n |-> 0, s |-> <<>>]

None == [t |-> "none", n |-> 0, s |-> <<>>]

Num(k) == [t |-> "num", n |-> k, s |-> <<>>]

Str(toks) == [t |-> "str", n |-> 0, s |-> toks]

\* a datetime object; n is the instant, counted in half days
Date(k) == [t |-> "date", n |-> k, s |-> <<>>]

\* a bson ObjectId; n stands for its twelve bytes
ObjectId(k) == [t |-> "oid", n |-> k, s |-> <<>>]

\* bool(v): None, 0 and "" are falsy
Truthy(v) ==
    CASE v.t = "num" -> v.n # 0
      [] v.t = "str" -> v.s # <<>>
      [] v.t = "date" -> TRUE
      [] v.t = "oid" -> TRUE
      [] OTHER -> FALSE

\* dict.get(key): a missing key reads as None
Get(v) == IF v.t = "absent" THEN None ELSE v

\* dict.get(key, default)
GetOr(v, default) == IF v.t = "absent" THEN default ELSE v

\* a or b
Or(a, b) == IF Truthy(a) THEN a ELSE b

\* isinstance(v, (int, float))
IsNumber(v) == v.t = "num"

\* a sub-dictionary of a posting: "absent" when the key is missing
NoDict == [t |-> "absent", amount |-> Absent, value |-> Absent, type |-> Absent, category |-> Absent]

WageDict(a, v, ty) == [t |-> "dict", amount |-> a, value |-> v, type |-> ty, category |-> Absent]

CompDict(a) == [t |-> "dict", amount |-> a, value |-> Absent, type |-> Absent, category |-> Absent]

AiDict(c) == [t |-> "dict", amount |-> Absent, value |-> Absent, type |-> Absent, category |-> c]

-----------------------------------------------------------------------------
(* Strings *)

RECURSIVE SumSeq(_)
SumSeq(s) == IF s = <<>> THEN 0 ELSE Head(s) + SumSeq(Tail(s))

\* number of characters of a token; a "FillN" token is a block of N characters of
\* plain text with no dictionary word and no section keyword inside
TokLen(tok) ==
    CASE tok = "Fill80" -> 80
      [] tok = "Fill99" -> 99
      [] tok = "Fill100" -> 100
      [] tok = "Fill150" -> 150
      [] tok = "Fill200" -> 200
      [] tok = "Fill201" -> 201
      [] tok = "Job" -> 3
      [] tok = "available." -> 10
      [] tok = "Math" -> 4
      [] tok = "Teacher" -> 7
      [] tok = "techer" -> 6
      [] tok = "Techers" -> 7
      [] tok = "adminstrator" -> 12
      [] tok = "assitant" -> 8
      [] tok = "pricipal" -> 8
      [] tok = "secratary" -> 9
      [] tok = "libraian" -> 8
      [] tok = "qualifications" -> 14
      [] tok = "Qualifications:" -> 15
      [] tok = "requirements" -> 12
      [] tok = "responsibilities" -> 16
      [] tok = "contact" -> 7
      [] tok = "Email" -> 5
      [] OTHER -> 6

\* number of whitespace-separated words of a token
TokWords(tok) ==
    CASE tok = "Fill80" -> 12
      [] tok = "Fill99" -> 15
      [] tok = "Fill100" -> 15
      [] tok = "Fill150" -> 23
      [] tok = "Fill200" -> 30
      [] tok = "Fill201" -> 31
      [] OTHER -> 1

\* len(s)
StrLen(s) ==
    IF s = <<>> THEN 0
    ELSE SumSeq([i \in DOMAIN s |-> TokLen(s[i])]) + Len(s) - 1

\* len(s.split())
SplitCount(s) == SumSeq([i \in DOMAIN s |-> TokWords(s[i])])

LowerTok(tok) ==
    CASE tok = "Job" -> "job"
      [] tok = "Math" -> "math"
      [] tok = "Teacher" -> "teacher"
      [] tok = "Techers" -> "techers"
      [] tok = "Qualifications:" -> "qualifications:"
      [] tok = "Email" -> "email"
      [] tok = "Hourly" -> "hourly"
      [] tok = "Annual" -> "annual"
      [] OTHER -> tok

\* s.lower()
Lower(s) == [i \in DOMAIN s |-> LowerTok(s[i])]

\* the strings searched for that occur inside a token, compared case-sensitively
TokSubstrings(tok) ==
    CASE tok = "techers" -> {"techer"}
      [] tok = "qualifications:" -> {"qualifications"}
      [] tok = "hourly" -> {"hour"}
      [] OTHER -> {tok}

\* needle in s
Contains(needle, s) == \E i \in DOMAIN s : needle \in TokSubstrings(s[i])

\* ', '.join(items)
RECURSIVE JoinComma(_)
JoinComma(items) ==
    IF items = <<>> THEN ""
    ELSE IF Len(items) = 1 THEN items[1]
    ELSE items[1] \o ", " \o JoinComma(Tail(items))

-----------------------------------------------------------------------------
(* _generate_quality_report: the body of the loop over the postings *)

Blank == Str(<<>>)

\* title = job.get('title', '')
TitleOf(j) == GetOr(j.title, Blank)

\* description = job.get('fullDescription', '') or job.get('description', '')
DescriptionOf(j) == Or(GetOr(j.fullDescription, Blank), GetOr(j.description, Blank))

common_errors ==
    << <<"techer", "teacher">>, <<"adminstrator", "administrator">>,
       <<"assitant", "assistant">>, <<"pricipal", "principal">>,
       <<"secratary", "secretary">>, <<"libraian", "librarian">> >>

\* the dictionary searched for in the description only, as it is written
SpellingHitsDescriptionOnly(title, description) ==
    SelectSeq(common_errors, LAMBDA e : Contains(e[1], description))

\* the entries of common_errors found in the description or the title
SpellingHits(title, description) ==
    SelectSeq(common_errors,
              LAMBDA e : \/ Contains(e[1], Lower(description))
                         \/ Contains(e[1], Lower(title)))

SpellingIssues(hits) ==
    [i \in DOMAIN hits |->
        "Spelling: '" \o hits[i][1] \o "' should be '" \o hits[i][2] \o "'"]

SpellingReasons(hits) ==
    [i \in DOMAIN hits |-> "x Contains spelling error: '" \o hits[i][1] \o "'"]

SpellingDelta(hits) == 0 - 10 * Len(hits)

\* wage_amount = wage.get('amount') or wage.get('value'), wage = job.get('wage', {})
WageAmount(j) == Or(Get(j.wage.amount), Get(j.wage.value))

WageIssues(j) ==
    IF ~Truthy(WageAmount(j)) THEN <<"Missing salary/wage information">> ELSE <<>>

WageReasons(j) ==
    IF ~Truthy(WageAmount(j)) THEN <<"x No salary/wage information provided">>
    ELSE <<"v Includes salary/wage information">>

WageDelta(j) == IF ~Truthy(WageAmount(j)) THEN 0 - 20 ELSE 20

LengthIssues(description) ==
    IF StrLen(description) < 100
    THEN <<"Description too short (< 100 characters)">> ELSE <<>>

LengthReasons(description) ==
    IF StrLen(description) < 100
    THEN <<"x Very short description (" \o ToString(StrLen(description)) \o " chars)">>
    ELSE IF StrLen(description) > 200
    THEN <<"v Comprehensive description (" \o ToString(SplitCount(description)) \o " words)">>
    ELSE <<>>

\* the bonus given from 200 characters on
LengthDeltaInclusive(description) ==
    IF StrLen(description) < 100 THEN 0 - 15
    ELSE IF StrLen(description) >= 200 THEN 15
    ELSE 0

\* the bonus tied to more than 200 words instead of more than 200 characters
LengthDeltaWords(description) ==
    IF StrLen(description) < 100 THEN 0 - 15
    ELSE IF SplitCount(description) > 200 THEN 15
    ELSE 0

LengthDelta(description) ==
    IF StrLen(description) < 100 THEN 0 - 15
    ELSE IF StrLen(description) > 200 THEN 15
    ELSE 0

required_fields == <<"qualifications", "requirements", "responsibilities">>

\* field.lower() in description.lower()
FieldFound(field, description) == Contains(field, Lower(description))

found_fields(description) ==
    SelectSeq(required_fields, LAMBDA f : FieldFound(f, description))

MissingFields(description) ==
    SelectSeq(required_fields, LAMBDA f : ~FieldFound(f, description))

FieldIssues(description) ==
    LET missing == MissingFields(description)
    IN  [i \in DOMAIN missing |-> "Missing section: " \o missing[i]]

FieldReasons(description) ==
    LET found == found_fields(description)
        missing == MissingFields(description)
    IN  (IF found # <<>>
         THEN <<"v Includes key sections: " \o JoinComma(found)>> ELSE <<>>)
        \o
        (IF Len(found) < Len(required_fields)
         THEN <<"x Missing: " \o JoinComma(missing)>> ELSE <<>>)

\* a section found adds 5 instead of 10
FieldsDeltaFive(description) == 5 * Len(found_fields(description))

FieldsDelta(description) == 10 * Len(found_fields(description))

\* if job.get('closingDate')
HasDeadline(j) == Truthy(Get(j.closingDate))

DeadlineIssues(j) ==
    IF HasDeadline(j) THEN <<>> ELSE <<"No application deadline specified">>

DeadlineReasons(j) ==
    IF HasDeadline(j) THEN <<"v Has application deadline">>
    ELSE <<"x No application deadline">>

DeadlineDelta(j) == IF HasDeadline(j) THEN 10 ELSE 0 - 5

HasContact(description) ==
    Contains("contact", Lower(description)) \/ Contains("email", Lower(description))

ContactReasons(description) ==
    IF HasContact(description) THEN <<"v Includes contact information">> ELSE <<>>

ContactDelta(description) == IF HasContact(description) THEN 5 ELSE 0

Max(a, b) == IF a >= b THEN a ELSE b

Min(a, b) == IF a <= b THEN a ELSE b

\* the score left as it is, neither floored at 0 nor capped at 100
NormalizeNoClamp(job_score) == 50 + job_score

\* job_score = max(0, min(100, 50 + job_score))
Normalize(job_score) == Max(0, Min(100, 50 + job_score))

\* the sum of the adjustments made to job_score before it is normalized
RawScore(j) ==
    LET title == TitleOf(j).s
        description == DescriptionOf(j).s
    IN  SpellingDelta(SpellingHits(title, description)) + WageDelta(j)
        + LengthDelta(description) + FieldsDelta(description)
        + DeadlineDelta(j) + ContactDelta(description)

\* the deadline checked before the sections, the wage before the spelling
IssuesOfReordered(j) ==
    LET title == TitleOf(j).s
        description == DescriptionOf(j).s
    IN  WageIssues(j) \o SpellingIssues(SpellingHits(title, description))
        \o LengthIssues(description) \o DeadlineIssues(j)
        \o FieldIssues(description)

IssuesOf(j) ==
    LET title == TitleOf(j).s
        description == DescriptionOf(j).s
    IN  SpellingIssues(SpellingHits(title, description)) \o WageIssues(j)
        \o LengthIssues(description) \o FieldIssues(description)
        \o DeadlineIssues(j)

ReasonsOf(j) ==
    LET title == TitleOf(j).s
        description == DescriptionOf(j).s
    IN  SpellingReasons(SpellingHits(title, description)) \o WageReasons(j)
        \o LengthReasons(description) \o FieldReasons(description)
        \o DeadlineReasons(j) \o ContactReasons(description)

Unclassified == Str(<<"Unclassified">>)

\* job.get('aiClassification', {}).get('category') or job.get('department', 'Unclassified')
RecordCategory(j) ==
    Or(Get(j.aiClassification.category), GetOr(j.department, Unclassified))

\* str(job.get('datePosted', 'Unknown'))
PostedDate(j) ==
    LET v == GetOr(j.datePosted, Str(<<"Unknown">>))
    IN  CASE v.t = "str" -> v.s
          [] v.t = "num" -> <<ToString(v.n)>>
          [] v.t = "date" -> <<"datetime", ToString(v.n)>>
          [] OTHER -> <<"None">>

JobAnalysis(j) ==
    [title |-> TitleOf(j).s,
     school |-> Or(GetOr(j.location, Blank), Str(<<"Location not specified">>)).s,
     category |-> RecordCategory(j),
     quality_score |-> Normalize(RawScore(j)),
     issues |-> IssuesOf(j),
     reasons |-> ReasonsOf(j),
     posted_date |-> PostedDate(j),
     word_count |-> SplitCount(DescriptionOf(j).s),
     full_description |-> DescriptionOf(j).s]

\* if job_score >= 80: top_jobs.append(job_analysis)
TopAppend(top, a) ==
    IF a.quality_score >= 80 THEN Append(top, a) ELSE top

\* every posting below the top threshold filed as an opportunity
OpportunityAppendBelow80(opps, a) ==
    IF a.quality_score < 80 THEN Append(opps, a) ELSE opps

\* elif job_score < 50: opportunities.append(job_analysis)
OpportunityAppend(opps, a) ==
    IF a.quality_score >= 80 THEN opps
    ELSE IF a.quality_score < 50 THEN Append(opps, a)
    ELSE opps

\* if issues: quality_issues.append(job_analysis)
IssuesAppend(qi, a) ==
    IF a.issues # <<>> THEN Append(qi, a) ELSE qi

-----------------------------------------------------------------------------
(* _generate_quality_report: the code after the loop *)

\* sorted(top_jobs, key=lambda x: x['quality_score'], reverse=True); sorted is stable
RECURSIVE SortDescending(_)
SortDescending(s) ==
    IF s = <<>> THEN <<>>
    ELSE LET front == SortDescending(SubSeq(s, 1, Len(s) - 1))
             x == s[Len(s)]
             k == Cardinality({i \in DOMAIN front :
                                 front[i].quality_score >= x.quality_score})
         IN  SubSeq(front, 1, k) \o <<x>> \o SubSeq(front, k + 1, Len(front))

\* sorted(opportunities, key=lambda x: x['quality_score'])
RECURSIVE SortAscending(_)
SortAscending(s) ==
    IF s = <<>> THEN <<>>
    ELSE LET front == SortAscending(SubSeq(s, 1, Len(s) - 1))
             x == s[Len(s)]
             k == Cardinality({i \in DOMAIN front :
                                 front[i].quality_score <= x.quality_score})
         IN  SubSeq(front, 1, k) \o <<x>> \o SubSeq(front, k + 1, Len(front))

\* s[:n]
Take(s, n) == SubSeq(s, 1, Min(n, Len(s)))

\* the slice bound of top_performing_jobs
TopCap == 10

\* the slice bound of improvement_opportunities
OpportunityCap == 10

\* the slice taken without sorting first
TopPerformingUnsorted(top) == Take(top, TopCap)

\* the opportunities sorted best first
ImprovementOpportunitiesDescending(opps) == Take(SortDescending(opps), OpportunityCap)

TopPerforming(top) == Take(SortDescending(top), TopCap)

ImprovementOpportunities(opps) == Take(SortAscending(opps), OpportunityCap)

\* the mean without the "if all_scores else 0": no value for an empty list (written -1)
RoundedMeanUnguarded(total, count) ==
    IF count = 0 THEN 0 - 1
    ELSE LET q == (10 * total) \div count
             r == (10 * total) % count
         IN  IF 2 * r > count \/ (2 * r = count /\ q % 2 = 1) THEN q + 1 ELSE q

\* round(total / count, 1) in tenths, 0 for an empty list; ties go to the even tenth
RoundedMean(total, count) ==
    IF count = 0 THEN 0
    ELSE LET q == (10 * total) \div count
             r == (10 * total) % count
         IN  IF 2 * r > count \/ (2 * r = count /\ q % 2 = 1) THEN q + 1 ELSE q

\* every scored posting taken once: the cohort members without issues after quality_issues
AllScoresOnce(qi, top, opps) ==
    LET all == qi \o SelectSeq(top \o opps, LAMBDA a : a.issues = <<>>)
    IN  [i \in DOMAIN all |-> all[i].quality_score]

\* all_scores = [job.get('quality_score', 0) for job in quality_issues + top_jobs + opportunities]
AllScores(qi, top, opps) ==
    LET all == qi \o top \o opps
    IN  [i \in DOMAIN all |-> all[i].quality_score]

QualityReport(js, qi, top, opps, wcs) ==
    [overall_quality_score |->
         RoundedMean(SumSeq(AllScores(qi, top, opps)), Len(AllScores(qi, top, opps))),
     total_jobs_analyzed |-> Len(js),
     avg_word_count |-> RoundedMean(SumSeq(wcs), Len(wcs)),
     top_performing_jobs |-> TopPerforming(top),
     improvement_opportunities |-> ImprovementOpportunities(opps),
     quality_issues |-> qi]

-----------------------------------------------------------------------------
(* Postings *)

MkJob(title, full, desc, wage, comp, closing, ai, dept, ptype) ==
    [title |-> title, fullDescription |-> full, description |-> desc,
     wage |-> wage, compensation |-> comp, closingDate |-> closing,
     aiClassification |-> ai, department |-> dept, positionType |-> ptype,
     location |-> Absent, datePosted |-> Absent]

MisspelledWords ==
    <<"techer", "adminstrator", "assitant", "pricipal", "secratary", "libraian">>

Range(s) == {s[i] : i \in DOMAIN s}

\* the words of ws that are in the set chosen, in the order of ws
Words(ws, chosen) == SelectSeq(ws, LAMBDA w : w \in chosen)

SomeTitle == Str(<<"Math", "Teacher">>)

SomeWage == WageDict(Num(25), Absent, Str(<<"hourly">>))

SomeDeadline == Str(<<"2026-12-01">>)

RichText == <<"Fill201", "qualifications", "requirements", "responsibilities", "contact">>

\* every set of misspellings, in a bare posting and in an otherwise complete one
MisspellingJobs ==
    { MkJob(SomeTitle, Str(Words(MisspelledWords, m)), Absent, NoDict, NoDict,
            Absent, NoDict, Absent, Absent) : m \in SUBSET Range(MisspelledWords) }
    \cup
    { MkJob(SomeTitle, Str(RichText \o Words(MisspelledWords, m)), Absent, SomeWage,
            NoDict, SomeDeadline, NoDict, Absent, Absent) :
        m \in SUBSET Range(MisspelledWords) }

\* every set of section keywords, with and without contact text, wage and deadline
SignalJobs ==
    { MkJob(SomeTitle, Str(f \o Words(required_fields, k) \o c), Absent, w, NoDict,
            d, NoDict, Absent, Absent) :
        f \in {<<"Job", "available.">>, <<"Fill100">>, <<"Fill201">>},
        k \in SUBSET Range(required_fields),
        c \in {<<>>, <<"contact">>, <<"Email">>},
        w \in {NoDict, SomeWage},
        d \in {Absent, SomeDeadline} }

\* descriptions at the length thresholds, the short description as fallback,
\* and words whose case or ending differs from the string searched for
TextJobs ==
    { MkJob(Str(t), full, Str(d), SomeWage, NoDict, SomeDeadline, NoDict, Absent, Absent) :
        t \in {<<"Math", "Teacher">>, <<"Techers">>},
        full \in {Absent, Blank, Str(<<"Fill150", "requirements">>)},
        d \in {<<"Fill99">>, <<"Fill100">>, <<"Fill200">>, <<"Fill201">>,
               <<"Fill80", "Qualifications:">>} }

WageValues == {Absent, None, Blank, Str(<<"negotiable">>), Num(0), Num(0 - 5), Num(25)}

\* every combination of wage.amount and wage.value, with and without compensation
WageJobs ==
    { MkJob(SomeTitle, Str(<<"Fill150">>), Absent, WageDict(a, v, Str(<<"hourly">>)),
            c, Absent, NoDict, Absent, Absent) :
        a \in WageValues, v \in WageValues, c \in {NoDict, CompDict(Num(30))} }
    \cup
    { MkJob(SomeTitle, Str(<<"Fill150">>), Absent, NoDict, c, Absent, NoDict,
            Absent, Absent) : c \in {NoDict, CompDict(Num(30))} }

\* every combination of the three fields a category is read from
CategoryJobs ==
    { MkJob(SomeTitle, Str(<<"Fill150">>), Absent, SomeWage, NoDict, Absent, ai, dept, ptype) :
        ai \in {NoDict, AiDict(Absent), AiDict(Blank), AiDict(Str(<<"Teacher">>))},
        dept \in {Absent, None, Blank, Str(<<"Custodial">>)},
        ptype \in {Absent, Blank, Str(<<"Bus Driver">>)} }

\* misspellings in a posting whose score stays inside 0..100
MidSpellingJobs ==
    { MkJob(SomeTitle, Str(<<"Fill150">> \o Words(MisspelledWords, m)), Absent, SomeWage,
            NoDict, Absent, NoDict, Absent, Absent) :
        m \in {{"techer", "pricipal"}, {"libraian"}, {"techer", "assitant", "secratary"}} }

JobPool ==
    MisspellingJobs \cup MidSpellingJobs \cup SignalJobs \cup TextJobs \cup WageJobs
    \cup CategoryJobs

-----------------------------------------------------------------------------
(* State machine *)

\* the number of postings of an input list
MaxJobs == 1

NoJob == MkJob(Absent, Absent, Absent, NoDict, NoDict, Absent, NoDict, Absent, Absent)

NoAnalysis ==
    [title |-> <<>>, school |-> <<>>, category |-> None, quality_score |-> 0,
     issues |-> <<>>, reasons |-> <<>>, posted_date |-> <<>>, word_count |-> 0,
     full_description |-> <<>>]

NoResult ==
    [overall_quality_score |-> 0, total_jobs_analyzed |-> 0, avg_word_count |-> 0,
     top_performing_jobs |-> <<>>, improvement_opportunities |-> <<>>,
     quality_issues |-> <<>>]

NoWages == [hourly |-> <<>>, salary |-> <<>>, stipend |-> <<>>]

NoCategories == [by_category |-> <<>>, total_categories |-> 0]

NoCharts == [pie_chart |-> [labels |-> <<>>, values |-> <<>>, colors |-> <<>>]]

NoReport == [error |-> "not called"]

(* The interpreter is about to execute the first module-level statement that
   touches the URL map; m tells whether __name__ is '__main__'. *)
ModuleLoaded(m) ==
    /\ main_script = m
    /\ stmt = 1
    /\ url_map = {}
    /\ flask_pc = "module"
    /\ served = <<>>

Init ==
    /\ pc = "loop"
    /\ jobs = <<>>
    /\ job = NoJob
    /\ job_analysis = NoAnalysis
    /\ quality_issues = <<>>
    /\ top_jobs = <<>>
    /\ opportunities = <<>>
    /\ word_counts = <<>>
    /\ result = NoResult
    /\ district_wages = NoWages
    /\ now = 0
    /\ analysis = NoCategories
    /\ charts = NoCharts
    /\ report = NoReport
    /\ ModuleLoaded(FALSE)

\* one iteration of "for job in jobs" of _generate_quality_report
ScoreJob(pool, max) ==
    /\ pc = "loop"
    /\ Len(jobs) < max
    /\ \E j \in pool :
          \E scored \in {JobAnalysis(j)} :
             /\ jobs' = Append(jobs, j)
             /\ job' = j
             /\ job_analysis' = scored
             /\ word_counts' = Append(word_counts, scored.word_count)
             /\ top_jobs' = TopAppend(top_jobs, scored)
             /\ opportunities' = OpportunityAppend(opportunities, scored)
             /\ quality_issues' = IssuesAppend(quality_issues, scored)
    /\ UNCHANGED <<pc, result, district_wages, now, analysis, charts, report, flask_vars>>

\* the end of the input list: the averages, the two sorted cohorts, the return
Finish ==
    /\ pc = "loop"
    /\ pc' = "done"
    /\ result' = QualityReport(jobs, quality_issues, top_jobs, opportunities, word_counts)
    /\ UNCHANGED <<jobs, job, job_analysis, quality_issues, top_jobs, opportunities,
                   word_counts, district_wages, now, analysis, charts, report, flask_vars>>

Next == ScoreJob(JobPool, MaxJobs) \/ Finish

Spec == Init /\ [][Next]_vars

-----------------------------------------------------------------------------
(* _compare_wages_to_nearby: the loop over the postings *)

\* amount = wage.get('amount') or wage.get('value');
\* if not amount: amount = job.get('compensation', {}).get('amount')
ComparedAmount(j) ==
    LET amount == Or(Get(j.wage.amount), Get(j.wage.value))
    IN  IF ~Truthy(amount) THEN Get(j.compensation.amount) ELSE amount

\* if amount and isinstance(amount, (int, float)) and amount > 0
AmountUsable(amount) == Truthy(amount) /\ IsNumber(amount) /\ amount.n > 0

\* wage_type = str(wage.get('type', 'unknown')).lower()
WageType(j) ==
    LET v == GetOr(j.wage.type, Str(<<"unknown">>))
    IN  CASE v.t = "str" -> Lower(v.s)
          [] v.t = "num" -> <<ToString(v.n)>>
          [] OTHER -> <<"none">>

\* the list of district_wages the posting's wage is filed under, "" for none
WageList(j) ==
    IF Contains("hour", WageType(j)) THEN "hourly"
    ELSE IF Contains("salary", WageType(j)) \/ Contains("annual", WageType(j)) THEN "salary"
    ELSE IF Contains("stipend", WageType(j)) THEN "stipend"
    ELSE ""

WageInfo(j) ==
    [amount |-> ComparedAmount(j),
     title |-> GetOr(j.title, Str(<<"Unknown">>)),
     category |-> Or(Get(j.aiClassification.category),
                     GetOr(j.department, Str(<<"Unknown">>)))]

WagesAppend(wages, j) ==
    IF AmountUsable(ComparedAmount(j)) /\ WageList(j) # ""
    THEN [wages EXCEPT ![WageList(j)] = Append(@, WageInfo(j))]
    ELSE wages

\* the number of postings of an input list of _compare_wages_to_nearby
MaxWageJobs == 1

AmountValues == {Absent, None, Blank, Str(<<"negotiable">>), Num(0), Num(0 - 5), Num(25)}

ValueValues == {Absent, None, Blank, Str(<<"negotiable">>), Num(0), Num(0 - 5), Num(26)}

CompensationValues ==
    {NoDict, CompDict(Absent), CompDict(Str(<<"negotiable">>)), CompDict(Num(0)),
     CompDict(Num(0 - 5)), CompDict(Num(27))}

WageTypes == {Absent, Str(<<"Hourly">>), Str(<<"Annual">>), Str(<<"salary">>),
              Str(<<"stipend">>), Str(<<"daily">>)}

WagePool ==
    { MkJob(SomeTitle, Str(<<"Fill150">>), Absent, WageDict(a, v, Str(<<"hourly">>)),
            c, Absent, NoDict, Absent, Absent) :
        a \in AmountValues, v \in ValueValues, c \in CompensationValues }
    \cup
    { MkJob(SomeTitle, Str(<<"Fill150">>), Absent, WageDict(a, Absent, ty),
            NoDict, Absent, NoDict, Absent, Absent) :
        a \in {Num(25), Num(0 - 5)}, ty \in WageTypes }
    \cup
    { MkJob(SomeTitle, Str(<<"Fill150">>), Absent, NoDict, c, Absent, NoDict,
            Absent, Absent) : c \in CompensationValues }

\* one iteration of "for job in jobs" of _compare_wages_to_nearby
CompareWagesJob(pool, max) ==
    /\ pc = "loop"
    /\ Len(jobs) < max
    /\ \E j \in pool :
          /\ jobs' = Append(jobs, j)
          /\ job' = j
          /\ district_wages' = WagesAppend(district_wages, j)
    /\ UNCHANGED <<pc, job_analysis, quality_issues, top_jobs, opportunities,
                   word_counts, result, now, analysis, charts, report, flask_vars>>

\* the return of _compare_wages_to_nearby: district_wages is handed back as it is
CompareWagesReturn ==
    /\ pc = "loop"
    /\ pc' = "done"
    /\ UNCHANGED <<jobs, job, job_analysis, quality_issues, top_jobs, opportunities,
                   word_counts, result, district_wages, now, analysis, charts, report, flask_vars>>

NextWages == CompareWagesJob(WagePool, MaxWageJobs) \/ CompareWagesReturn

SpecWages == Init /\ [][NextWages]_vars

-----------------------------------------------------------------------------
(* _analyze_jobs_for_hr: postings grouped by category, days open *)

\* the category a posting is grouped under (the aggregator's own resolution)
AnalyzeCategory(j) ==
    LET ai_classification == j.aiClassification
        category == IF ai_classification.t = "absent" THEN None
                    ELSE IF ai_classification.t = "dict" THEN Get(ai_classification.category)
                    ELSE None
    IN  IF Truthy(category) THEN category
        ELSE Or(Or(Get(j.department), Get(j.positionType)), Unclassified)

Front(s) == SubSeq(s, 1, Len(s) - 1)

Last(s) == s[Len(s)]

\* by_category[category] = [job]: a posting replaces its group instead of joining it
RECURSIVE GroupByCategoryOverwrite(_)
GroupByCategoryOverwrite(js) ==
    IF js = <<>> THEN <<>>
    ELSE LET before == GroupByCategoryOverwrite(Front(js))
             category == AnalyzeCategory(Last(js))
         IN  IF \E i \in DOMAIN before : before[i].category = category
             THEN [i \in DOMAIN before |->
                      IF before[i].category = category
                      THEN [before[i] EXCEPT !.jobs = <<Last(js)>>]
                      ELSE before[i]]
             ELSE Append(before, [category |-> category, jobs |-> <<Last(js)>>])

\* by_category[category].append(job): a dict keeps its keys in insertion order
RECURSIVE GroupByCategory(_)
GroupByCategory(js) ==
    IF js = <<>> THEN <<>>
    ELSE LET before == GroupByCategory(Front(js))
             category == AnalyzeCategory(Last(js))
         IN  IF \E i \in DOMAIN before : before[i].category = category
             THEN [i \in DOMAIN before |->
                      IF before[i].category = category
                      THEN [before[i] EXCEPT !.jobs = Append(@, Last(js))]
                      ELSE before[i]]
             ELSE Append(before, [category |-> category, jobs |-> <<Last(js)>>])

\* the strings datetime.fromisoformat accepts once 'Z' is replaced by '+00:00'
IsIso(toks) ==
    toks \in {<<"2026-11-01">>, <<"2026-11-01T00:00:00">>, <<"2026-11-02T00:00:00">>,
              <<"2026-11-02T12:00:00">>, <<"2026-11-02T12:00:00Z">>,
              <<"2026-11-05T12:00:00">>}

\* the instant such a string denotes, in half days since 2026-10-31T00:00
FromIsoformat(toks) ==
    CASE toks = <<"2026-11-01">> -> 2
      [] toks = <<"2026-11-01T00:00:00">> -> 2
      [] toks = <<"2026-11-02T00:00:00">> -> 4
      [] toks = <<"2026-11-02T12:00:00">> -> 5
      [] toks = <<"2026-11-02T12:00:00Z">> -> 5
      [] toks = <<"2026-11-05T12:00:00">> -> 11

\* timedelta.days: whole days, rounded towards minus infinity
Days(t, posted_date) == (t - posted_date) \div 2

\* a posting without a usable date counts as open for zero days
DaysOpenOfZeroFilled(j, t) ==
    LET posted == Get(j.datePosted)
    IN  IF ~Truthy(posted) THEN <<0>>
        ELSE CASE posted.t = "str" ->
                      IF IsIso(posted.s) THEN <<Days(t, FromIsoformat(posted.s))>> ELSE <<0>>
               [] posted.t = "date" -> <<Days(t, posted.n)>>
               [] OTHER -> <<0>>

\* what one posting adds to days_open: nothing when datePosted is falsy, when
\* fromisoformat raises, or when the value has no tzinfo (the bare except)
DaysOpenOf(j, t) ==
    LET posted == Get(j.datePosted)
    IN  IF ~Truthy(posted) THEN <<>>
        ELSE CASE posted.t = "str" ->
                      IF IsIso(posted.s) THEN <<Days(t, FromIsoformat(posted.s))>> ELSE <<>>
               [] posted.t = "date" -> <<Days(t, posted.n)>>
               [] OTHER -> <<>>

RECURSIVE DaysOpen(_, _)
DaysOpen(cat_jobs, t) ==
    IF cat_jobs = <<>> THEN <<>>
    ELSE DaysOpen(Front(cat_jobs), t) \o DaysOpenOf(Last(cat_jobs), t)

\* one entry of category_metrics; avg_days_open is kept in tenths
CategoryMetrics(group, t) ==
    [category |-> group.category,
     count |-> Len(group.jobs),
     avg_days_open |-> RoundedMean(SumSeq(DaysOpen(group.jobs, t)), Len(DaysOpen(group.jobs, t))),
     jobs |-> group.jobs]

AnalyzeJobsForHR(js, t) ==
    LET by_category == GroupByCategory(js)
        category_metrics == [i \in DOMAIN by_category |-> CategoryMetrics(by_category[i], t)]
    IN  [by_category |-> category_metrics, total_categories |-> Len(category_metrics)]

-----------------------------------------------------------------------------
(* _generate_chart_data: the category pie chart *)

\* the fallback of the scored-job record used for the chart: the department
\* or 'Unclassified', positionType never read
ChartCategoryNoPositionType(j) ==
    LET ai_classification == j.aiClassification
        category == IF ai_classification.t = "absent" THEN None
                    ELSE IF ai_classification.t = "dict" THEN Get(ai_classification.category)
                    ELSE None
    IN  IF Truthy(category) THEN category
        ELSE Or(Get(j.department), Unclassified)

\* the category a posting is counted under (the chart's own resolution)
ChartCategory(j) ==
    LET ai_classification == j.aiClassification
        category == IF ai_classification.t = "absent" THEN None
                    ELSE IF ai_classification.t = "dict" THEN Get(ai_classification.category)
                    ELSE None
    IN  IF Truthy(category) THEN category
        ELSE Or(Or(Get(j.department), Get(j.positionType)), Unclassified)

\* the entries with the largest value first, equal values in their old order
RECURSIVE ByValueFrom(_, _)
ByValueFrom(s, v) ==
    IF v = 0 THEN <<>>
    ELSE SelectSeq(s, LAMBDA e : e.value = v) \o ByValueFrom(s, v - 1)

\* Counter(categories).most_common(): the entries ordered by descending count
RECURSIVE CounterMostCommon(_)
CounterMostCommon(categories) ==
    IF categories = <<>> THEN <<>>
    ELSE LET before == CounterMostCommon(Front(categories))
             category == Last(categories)
             counted == IF \E i \in DOMAIN before : before[i].label = category
                        THEN [i \in DOMAIN before |->
                                 IF before[i].label = category
                                 THEN [before[i] EXCEPT !.value = @ + 1]
                                 ELSE before[i]]
                        ELSE Append(before, [label |-> category, value |-> 1])
         IN  ByValueFrom(counted, Len(categories))

\* Counter(categories): one entry per distinct element, in first-seen order
RECURSIVE Counter(_)
Counter(categories) ==
    IF categories = <<>> THEN <<>>
    ELSE LET before == Counter(Front(categories))
             category == Last(categories)
         IN  IF \E i \in DOMAIN before : before[i].label = category
             THEN [i \in DOMAIN before |->
                      IF before[i].label = category
                      THEN [before[i] EXCEPT !.value = @ + 1]
                      ELSE before[i]]
             ELSE Append(before, [label |-> category, value |-> 1])

color_map ==
    <<  <<"Teacher", "#116753">>, <<"Support Staff", "#89BEF4">>,
        <<"Administrator", "#D776C2">>, <<"Specialist", "#FED46B">>,
        <<"Paraprofessional", "#E8F0CA">>, <<"Custodial", "#02223C">>,
        <<"Transportation", "#4A90E2">>, <<"Food Service", "#F39C12">>,
        <<"Athletics", "#E74C3C">>, <<"Unclassified", "#95A5A6">>  >>

\* color_map.get(cat, '#95A5A6')
CategoryColor(cat) ==
    IF cat.t = "str" /\ \E i \in DOMAIN color_map : cat.s = <<color_map[i][1]>>
    THEN color_map[CHOOSE i \in DOMAIN color_map : cat.s = <<color_map[i][1]>>][2]
    ELSE "#95A5A6"

\* a label outside color_map takes a color of a second palette by its position
GetCategoryColorsCycled(categories) ==
    LET secondary == <<"#1F77B4", "#FF7F0E", "#2CA02C">>
    IN  [i \in DOMAIN categories |->
            IF categories[i].t = "str"
               /\ \E k \in DOMAIN color_map : categories[i].s = <<color_map[k][1]>>
            THEN CategoryColor(categories[i])
            ELSE secondary[((i - 1) % Len(secondary)) + 1]]

GetCategoryColors(categories) == [i \in DOMAIN categories |-> CategoryColor(categories[i])]

\* Counter(set(categories)): every category counted once, however many postings show it
GenerateChartDataDistinct(js) ==
    LET categories == [i \in DOMAIN js |-> ChartCategory(js[i])]
        category_counts == Counter(categories)
        keys == [i \in DOMAIN category_counts |-> category_counts[i].label]
    IN  [pie_chart |->
            [labels |-> keys,
             values |-> [i \in DOMAIN category_counts |-> 1],
             colors |-> GetCategoryColors(keys)]]

GenerateChartData(js) ==
    LET categories == [i \in DOMAIN js |-> ChartCategory(js[i])]
        category_counts == Counter(categories)
        keys == [i \in DOMAIN category_counts |-> category_counts[i].label]
    IN  [pie_chart |->
            [labels |-> keys,
             values |-> [i \in DOMAIN category_counts |-> category_counts[i].value],
             colors |-> GetCategoryColors(keys)]]

-----------------------------------------------------------------------------
(* The three analyses of a report run over one list of postings *)

\* job_score = 0 set once before the loop: every posting starts from the sum
\* the postings before it have left
RECURSIVE ScoreAllCarried(_)
ScoreAllCarried(js) ==
    IF js = <<>>
    THEN [quality_issues |-> <<>>, top_jobs |-> <<>>, opportunities |-> <<>>,
          word_counts |-> <<>>]
    ELSE LET before == ScoreAllCarried(Front(js))
             carried == SumSeq([i \in DOMAIN Front(js) |-> RawScore(js[i])])
             scored == [JobAnalysis(Last(js)) EXCEPT
                           !.quality_score = Normalize(carried + RawScore(Last(js)))]
         IN  [quality_issues |-> IssuesAppend(before.quality_issues, scored),
              top_jobs |-> TopAppend(before.top_jobs, scored),
              opportunities |-> OpportunityAppend(before.opportunities, scored),
              word_counts |-> Append(before.word_counts, scored.word_count)]

\* the loop of _generate_quality_report over a whole list
RECURSIVE ScoreAll(_)
ScoreAll(js) ==
    IF js = <<>>
    THEN [quality_issues |-> <<>>, top_jobs |-> <<>>, opportunities |-> <<>>,
          word_counts |-> <<>>]
    ELSE LET before == ScoreAll(Front(js))
             scored == JobAnalysis(Last(js))
         IN  [quality_issues |-> IssuesAppend(before.quality_issues, scored),
              top_jobs |-> TopAppend(before.top_jobs, scored),
              opportunities |-> OpportunityAppend(before.opportunities, scored),
              word_counts |-> Append(before.word_counts, scored.word_count)]

\* postings of three categories with every kind of datePosted
CoreJob(ai, dept, ptype, posted, wage, location) ==
    [MkJob(SomeTitle, Absent, Str(<<"Fill150">>), wage, NoDict, Absent, ai, dept, ptype)
        EXCEPT !.datePosted = posted, !.location = location]

Teacher == AiDict(Str(<<"Teacher">>))

Custodial == Str(<<"Custodial">>)

CorePool ==
    { CoreJob(Teacher, Custodial, Absent, Str(<<"2026-11-01">>), SomeWage, Absent),
      CoreJob(Teacher, Absent, Absent, Str(<<"2026-11-02T12:00:00Z">>), NoDict, Str(<<"Lincoln">>)),
      CoreJob(Teacher, Absent, Absent, Absent, SomeWage, Str(<<>>)),
      CoreJob(Teacher, Absent, Absent, Str(<<"last", "week">>), NoDict, Absent),
      CoreJob(NoDict, Custodial, Absent, Str(<<"2026-11-05T12:00:00">>), SomeWage, Absent),
      CoreJob(AiDict(None), Custodial, Str(<<"Bus Driver">>), Str(<<"2026-11-01">>), NoDict, None),
      CoreJob(NoDict, Custodial, Absent, Date(4), SomeWage, Str(<<"Lincoln">>)),
      CoreJob(NoDict, Custodial, Absent, Num(20261101), NoDict, Absent),
      CoreJob(NoDict, Absent, Absent, None, SomeWage, Absent),
      CoreJob(AiDict(Str(<<>>)), Str(<<>>), Absent, Str(<<"2026-11-02T12:00:00Z">>), NoDict, Absent),
      CoreJob(NoDict, Absent, Str(<<"Bus Driver">>), Str(<<>>), SomeWage, Absent),
      CoreJob(NoDict, Str(<<"Nurse">>), Absent, Absent, NoDict, Absent) }

MaxCoreJobs == 3

\* the instants datetime.now() can return: 2026-11-04 at midnight and at noon
Clock == {8, 9}

\* the caller collects one more posting
AddJob(pool, max) ==
    /\ pc = "loop"
    /\ Len(jobs) < max
    /\ \E j \in pool :
          /\ jobs' = Append(jobs, j)
          /\ job' = j
    /\ UNCHANGED <<pc, job_analysis, quality_issues, top_jobs, opportunities, word_counts,
                   result, district_wages, now, analysis, charts, report, flask_vars>>

\* job['department'] = category inside the grouping loop: the resolved
\* category written back into every posting of the caller's list
AnalyzeJobsTagging ==
    /\ pc = "loop"
    /\ pc' = "analyzed"
    /\ \E t \in Clock :
          /\ now' = t
          /\ analysis' = AnalyzeJobsForHR(jobs, t)
    /\ jobs' = [i \in DOMAIN jobs |-> [jobs[i] EXCEPT !.department = AnalyzeCategory(jobs[i])]]
    /\ UNCHANGED <<job, job_analysis, quality_issues, top_jobs, opportunities,
                   word_counts, result, district_wages, charts, report, flask_vars>>

AnalyzeJobs ==
    /\ pc = "loop"
    /\ pc' = "analyzed"
    /\ \E t \in Clock :
          /\ now' = t
          /\ analysis' = AnalyzeJobsForHR(jobs, t)
    /\ UNCHANGED <<jobs, job, job_analysis, quality_issues, top_jobs, opportunities,
                   word_counts, result, district_wages, charts, report, flask_vars>>

ChartJobs ==
    /\ pc = "analyzed"
    /\ pc' = "charted"
    /\ charts' = GenerateChartData(jobs)
    /\ UNCHANGED <<jobs, job, job_analysis, quality_issues, top_jobs, opportunities,
                   word_counts, result, district_wages, now, analysis, report, flask_vars>>

GenerateQualityReport ==
    /\ pc = "charted"
    /\ pc' = "done"
    /\ \E scored \in {ScoreAll(jobs)} :
          /\ quality_issues' = scored.quality_issues
          /\ top_jobs' = scored.top_jobs
          /\ opportunities' = scored.opportunities
          /\ word_counts' = scored.word_counts
          /\ result' = QualityReport(jobs, scored.quality_issues, scored.top_jobs,
                                     scored.opportunities, scored.word_counts)
    /\ job_analysis' = IF jobs = <<>> THEN job_analysis ELSE JobAnalysis(Last(jobs))
    /\ UNCHANGED <<jobs, job, district_wages, now, analysis, charts, report, flask_vars>>

NextCore == AddJob(CorePool, MaxCoreJobs) \/ AnalyzeJobs \/ ChartJobs \/ GenerateQualityReport

SpecCore == Init /\ [][NextCore]_vars

-----------------------------------------------------------------------------
(* generate_school_hr_report: the report run over the postings of a district *)

\* datetime.isoformat() of a naive instant
Isoformat(k) ==
    CASE k = 2 -> "2026-11-01T00:00:00"
      [] k = 4 -> "2026-11-02T00:00:00"
      [] k = 5 -> "2026-11-02T12:00:00"
      [] k = 11 -> "2026-11-05T12:00:00"

\* str(ObjectId): twenty-four hexadecimal digits
ObjectIdString(k) == "0000000000000000000000" \o ToString(k)

\* the branches of _convert_objectids_to_strings for a value that holds no other
\* value: an ObjectId becomes its string, a datetime its ISO string
ConvertScalar(v) ==
    CASE v.t = "oid" -> Str(<<ObjectIdString(v.n)>>)
      [] v.t = "date" -> Str(<<Isoformat(v.n)>>)
      [] OTHER -> v

\* the dict branch left out: a dict is returned as it is, with what it holds
ConvertValueShallow(v) ==
    IF v.t = "dict" THEN v ELSE ConvertScalar(v)

\* _convert_objectids_to_strings on one value: a dict is converted key by key
ConvertValue(v) ==
    IF v.t = "dict"
    THEN [f \in DOMAIN v |-> IF f = "t" THEN v[f] ELSE ConvertScalar(v[f])]
    ELSE ConvertScalar(v)

ConvertJob(j) == [f \in DOMAIN j |-> ConvertValue(j[f])]

ConvertObjectIdsToStrings(js) == [i \in DOMAIN js |-> ConvertJob(js[i])]

\* job.get('wage', {}).get(...) on a wage that is neither missing nor a dict
SplitRaises(j) == j.wage.t \notin {"absent", "dict"}

\* job.get('wage', {}).get('amount') or job.get('wage', {}).get('value')
HasWageData(j) == Truthy(Or(Get(j.wage.amount), Get(j.wage.value)))

\* bool(job.get('aiClassification')): an empty dict is falsy
IsClassified(j) ==
    IF j.aiClassification.t = "dict"
    THEN \E f \in DOMAIN j.aiClassification \ {"t"} : j.aiClassification[f].t # "absent"
    ELSE IF j.aiClassification.t = "absent" THEN FALSE
    ELSE Truthy(j.aiClassification)

\* the statements of the scoring loop that raise AttributeError: description.split()
\* and title.lower() on a value that is not a string, .get on a value that is not a dict
ScoreRaises(j) ==
    \/ DescriptionOf(j).t # "str"
    \/ /\ TitleOf(j).t # "str"
       /\ \E i \in DOMAIN common_errors :
             ~Contains(common_errors[i][1], Lower(DescriptionOf(j).s))
    \/ j.wage.t \notin {"absent", "dict"}
    \/ j.aiClassification.t \notin {"absent", "dict"}

\* "unscraped_jobs": the first ten postings without wage data
UnscrapedJobs(jobs_without_wages) ==
    [i \in 1..Min(10, Len(jobs_without_wages)) |->
        [title |-> GetOr(jobs_without_wages[i].title, Str(<<"Unknown">>)),
         location |-> GetOr(jobs_without_wages[i].location, Str(<<"Unknown">>)),
         category |-> Or(Get(jobs_without_wages[i].department),
                         GetOr(jobs_without_wages[i].positionType, Unclassified))]]

\* the except branch: the error outcome ("error": True, written as a string)
ErrorOutcome(error_type) == [error |-> "True", error_type |-> error_type]

\* the final _convert_objectids_to_strings(result): the postings held in the result
ConvertAnalysis(a) ==
    [a EXCEPT !.by_category =
        [g \in DOMAIN @ |-> [@[g] EXCEPT !.jobs = ConvertObjectIdsToStrings(@)]]]

\* the final _convert_objectids_to_strings(result), on every part of the result
\* that holds values taken from the postings; the keys of a dict (the
\* categories of by_category) are not converted
ConvertResult(r) ==
    LET entries(list) == [i \in DOMAIN list |-> [list[i] EXCEPT !.category = ConvertValue(@)]]
    IN  [r EXCEPT
           !.analysis = ConvertAnalysis(@),
           !.charts.pie_chart.labels = [i \in DOMAIN @ |-> ConvertValue(@[i])],
           !.quality_report.top_performing_jobs = entries(@),
           !.quality_report.improvement_opportunities = entries(@),
           !.quality_report.quality_issues = entries(@),
           !.quality_report.unscraped_jobs =
               [i \in DOMAIN @ |-> [f \in DOMAIN @[i] |-> ConvertValue(@[i][f])]]]

\* the quality report generated on all_jobs instead of jobs_with_wages
ResultDictScoringAll(all_jobs, t) ==
    LET jobs_with_wages == SelectSeq(all_jobs, HasWageData)
        jobs_without_wages == SelectSeq(all_jobs, LAMBDA j : ~HasWageData(j))
        scored == ScoreAll(all_jobs)
        quality_report == QualityReport(all_jobs, scored.quality_issues,
                                        scored.top_jobs, scored.opportunities,
                                        scored.word_counts)
    IN  [report_type |-> "school_hr_admin",
         total_jobs |-> Len(all_jobs),
         jobs_with_wage_data |-> Len(jobs_with_wages),
         jobs_without_wage_data |-> Len(jobs_without_wages),
         classified_jobs |-> Len(SelectSeq(all_jobs, IsClassified)),
         analysis |-> AnalyzeJobsForHR(all_jobs, t),
         charts |-> GenerateChartData(all_jobs),
         quality_report |->
             [overall_quality_score |-> quality_report.overall_quality_score,
              total_jobs_analyzed |-> quality_report.total_jobs_analyzed,
              avg_word_count |-> quality_report.avg_word_count,
              top_performing_jobs |-> quality_report.top_performing_jobs,
              improvement_opportunities |-> quality_report.improvement_opportunities,
              quality_issues |-> quality_report.quality_issues,
              unscraped_jobs_count |-> Len(jobs_without_wages),
              unscraped_jobs |-> UnscrapedJobs(jobs_without_wages)]]

\* the value built at "result = {...}", before the final conversion
ResultDict(all_jobs, t) ==
    LET jobs_with_wages == SelectSeq(all_jobs, HasWageData)
        jobs_without_wages == SelectSeq(all_jobs, LAMBDA j : ~HasWageData(j))
        scored == ScoreAll(jobs_with_wages)
        quality_report == QualityReport(jobs_with_wages, scored.quality_issues,
                                        scored.top_jobs, scored.opportunities,
                                        scored.word_counts)
    IN  [report_type |-> "school_hr_admin",
         total_jobs |-> Len(all_jobs),
         jobs_with_wage_data |-> Len(jobs_with_wages),
         jobs_without_wage_data |-> Len(jobs_without_wages),
         classified_jobs |-> Len(SelectSeq(all_jobs, IsClassified)),
         analysis |-> AnalyzeJobsForHR(all_jobs, t),
         charts |-> GenerateChartData(all_jobs),
         quality_report |->
             [overall_quality_score |-> quality_report.overall_quality_score,
              total_jobs_analyzed |-> quality_report.total_jobs_analyzed,
              avg_word_count |-> quality_report.avg_word_count,
              top_performing_jobs |-> quality_report.top_performing_jobs,
              improvement_opportunities |-> quality_report.improvement_opportunities,
              quality_issues |-> quality_report.quality_issues,
              unscraped_jobs_count |-> Len(jobs_without_wages),
              unscraped_jobs |-> UnscrapedJobs(jobs_without_wages)]]

\* the result of a run that reaches the return statement
ReportResult(all_jobs, t) == ConvertResult(ResultDict(all_jobs, t))

\* the whole call, from the postings found to the value returned
SchoolHRReport(all_jobs_raw, t) ==
    IF all_jobs_raw = <<>> THEN [error |-> "No jobs found"]
    ELSE LET all_jobs == ConvertObjectIdsToStrings(all_jobs_raw)
         IN  IF \E i \in DOMAIN all_jobs : SplitRaises(all_jobs[i])
             THEN ErrorOutcome("AttributeError")
             ELSE IF \E i \in DOMAIN all_jobs :
                        HasWageData(all_jobs[i]) /\ ScoreRaises(all_jobs[i])
             THEN ErrorOutcome("AttributeError")
             ELSE ReportResult(all_jobs, t)

\* postings with a sub-structure that is null or of the wrong type, next to sound ones
BadJob(title, full, desc, wage, ai, posted) ==
    [MkJob(title, full, desc, wage, NoDict, Absent, ai, Custodial, Absent)
        EXCEPT !.datePosted = posted]

ReportPool ==
    { BadJob(SomeTitle, Str(RichText), Absent, SomeWage, Teacher, Str(<<"2026-11-01">>)),
      BadJob(SomeTitle, Absent, Str(<<"Fill150">>), NoDict, NoDict, Date(4)),
      BadJob(SomeTitle, Absent, Str(<<"Fill150">>), SomeWage, NoDict, Date(11)),
      BadJob(SomeTitle, Absent, Str(<<"Fill150">>), None, NoDict, Absent),
      BadJob(SomeTitle, Absent, Str(<<"Fill150">>), Str(<<"negotiable">>), NoDict, Absent),
      BadJob(SomeTitle, Absent, Str(<<"Fill150">>), SomeWage, None, Absent),
      BadJob(SomeTitle, Absent, Str(<<"Fill150">>), NoDict, None, Absent),
      BadJob(SomeTitle, None, Absent, SomeWage, NoDict, Absent),
      BadJob(SomeTitle, Absent, None, SomeWage, NoDict, Absent),
      BadJob(SomeTitle, Absent, None, NoDict, NoDict, Absent),
      BadJob(SomeTitle, Num(5), Absent, SomeWage, NoDict, Absent),
      BadJob(None, Absent, Str(<<"Fill150">>), SomeWage, NoDict, Absent),
      BadJob(SomeTitle, Absent, Str(<<"Fill150">>), SomeWage,
             Teacher @@ ("classifiedAt" :> Date(5)), Date(2))
          @@ ("_id" :> ObjectId(11)) @@ ("districtId" :> ObjectId(42)),
      BadJob(SomeTitle, Absent, Str(<<"Fill150">>), NoDict, NoDict, Absent)
          @@ ("_id" :> ObjectId(12)) @@ ("districtId" :> ObjectId(42)),
      BadJob(SomeTitle, Absent, Str(<<"Fill150">>),
             WageDict(Num(0), Num(26), Str(<<"hourly">>)), NoDict, Absent),
      BadJob(SomeTitle, Absent, Str(<<"Fill150">>),
             WageDict(Num(0), Absent, Str(<<"hourly">>)), NoDict, Absent) }

MaxReportJobs == 2

GenerateSchoolHRReport ==
    /\ pc = "loop"
    /\ pc' = "returned"
    /\ \E t \in Clock :
          /\ now' = t
          /\ report' = SchoolHRReport(jobs, t)
    /\ UNCHANGED <<jobs, job, job_analysis, quality_issues, top_jobs, opportunities,
                   word_counts, result, district_wages, analysis, charts, flask_vars>>

NextReport == AddJob(ReportPool, MaxReportJobs) \/ GenerateSchoolHRReport

SpecReport == Init /\ [][NextReport]_vars

-----------------------------------------------------------------------------
(* Module-level execution of app.py and request dispatch *)

(* A URL is the sequence of its path segments. *)
Route(rule, methods, endpoint) ==
    [kind |-> "route", rule |-> rule, methods |-> methods, endpoint |-> endpoint]

GetMethods == {"GET", "HEAD", "OPTIONS"}

PostMethods == {"POST", "OPTIONS"}

(* The module-level statements that register routes or start the server,
   in file order. *)
ModuleStatements ==
    << Route(<<>>, GetMethods, "index"),
       Route(<<"api", "search">>, PostMethods, "search"),
       Route(<<"api", "generate-report">>, PostMethods, "generate_report"),
       Route(<<"api", "reports">>, GetMethods, "list_reports"),
       Route(<<"api", "generate-demo-script">>, PostMethods, "generate_demo_script_endpoint"),
       Route(<<"api", "download", "<filename>">>, GetMethods, "download_report"),
       Route(<<"api", "report-preview", "<filename>">>, GetMethods, "preview_report"),
       Route(<<"api", "cost-stats">>, GetMethods, "cost_stats"),
       [kind |-> "run"],
       Route(<<"api", "generate-hr-report">>, PostMethods, "generate_hr_report_endpoint"),
       Route(<<"api", "download-hr-report-pdf">>, PostMethods, "download_hr_report_pdf") >>

Rule(r) == [rule |-> r.rule, methods |-> r.methods, endpoint |-> r.endpoint]

(* A rule matches a path segment by segment; <filename> takes any segment. *)
Matches(rule, path) ==
    /\ Len(rule) = Len(path)
    /\ \A i \in 1..Len(rule) : rule[i] = "<filename>" \/ rule[i] = path[i]

(* The endpoint a request is dispatched to under the registered rules. *)
DispatchRequest(rules, method, path) ==
    LET found == {r \in rules : Matches(r.rule, path)}
        allowed == {r \in found : method \in r.methods}
    IN  IF found = {} THEN "NotFound"
        ELSE IF allowed = {} THEN "MethodNotAllowed"
        ELSE (CHOOSE r \in allowed : TRUE).endpoint

Request(method, path) == [method |-> method, path |-> path]

HRReportRequest == Request("POST", <<"api", "generate-hr-report">>)

HRPdfRequest == Request("POST", <<"api", "download-hr-report-pdf">>)

RequestPool ==
    { HRReportRequest,
      HRPdfRequest,
      Request("GET", <<"api", "generate-hr-report">>),
      Request("GET", <<>>),
      Request("POST", <<"api", "search">>),
      Request("GET", <<"api", "download", "report.pdf">>) }

MaxRequests == 2

(* A decorator statement adds its rule to the URL map; once the app has
   handled a request, Flask's setup check may refuse it with an
   AssertionError, which ends the script. *)
RegisterRoute ==
    /\ flask_pc = "module"
    /\ stmt <= Len(ModuleStatements)
    /\ ModuleStatements[stmt].kind = "route"
    /\ \/ /\ url_map' = url_map \cup {Rule(ModuleStatements[stmt])}
          /\ stmt' = stmt + 1
          /\ flask_pc' = flask_pc
       \/ /\ served # <<>>
          /\ flask_pc' = "exited"
          /\ UNCHANGED <<url_map, stmt>>
    /\ UNCHANGED <<main_script, served>>
    /\ UNCHANGED <<pc, jobs, job, job_analysis, quality_issues, top_jobs,
                   opportunities, word_counts, result, district_wages,
                   now, analysis, charts, report>>

(* The guard on __name__: as the main script app.run starts serving and does
   not return; when imported the statement is skipped. *)
MainGuard ==
    /\ flask_pc = "module"
    /\ stmt <= Len(ModuleStatements)
    /\ ModuleStatements[stmt].kind = "run"
    /\ IF main_script
       THEN flask_pc' = "serving" /\ stmt' = stmt
       ELSE flask_pc' = "module" /\ stmt' = stmt + 1
    /\ UNCHANGED <<main_script, url_map, served>>
    /\ UNCHANGED <<pc, jobs, job, job_analysis, quality_issues, top_jobs,
                   opportunities, word_counts, result, district_wages,
                   now, analysis, charts, report>>

(* The last statement has been executed: an importing server serves the app
   object, the main script's process ends. *)
ModuleEnd ==
    /\ flask_pc = "module"
    /\ stmt > Len(ModuleStatements)
    /\ flask_pc' = IF main_script THEN "exited" ELSE "imported"
    /\ UNCHANGED <<main_script, stmt, url_map, served>>
    /\ UNCHANGED <<pc, jobs, job, job_analysis, quality_issues, top_jobs,
                   opportunities, word_counts, result, district_wages,
                   now, analysis, charts, report>>

(* A request arrives while the app is being served. *)
Dispatch(max) ==
    /\ flask_pc \in {"serving", "imported"}
    /\ Len(served) < max
    /\ \E req \in RequestPool :
          served' = Append(served,
                           [request |-> req,
                            endpoint |-> DispatchRequest(url_map, req.method, req.path)])
    /\ UNCHANGED <<main_script, stmt, url_map, flask_pc>>
    /\ UNCHANGED <<pc, jobs, job, job_analysis, quality_issues, top_jobs,
                   opportunities, word_counts, result, district_wages,
                   now, analysis, charts, report>>

(* The development server is interrupted: app.run returns and the module
   goes on with the statement after it, or the process is gone. *)
Shutdown ==
    /\ flask_pc = "serving"
    /\ \/ flask_pc' = "module" /\ stmt' = stmt + 1
       \/ flask_pc' = "exited" /\ stmt' = stmt
    /\ UNCHANGED <<main_script, url_map, served>>
    /\ UNCHANGED <<pc, jobs, job, job_analysis, quality_issues, top_jobs,
                   opportunities, word_counts, result, district_wages,
                   now, analysis, charts, report>>

InitMain ==
    /\ pc = "loop"
    /\ jobs = <<>>
    /\ job = NoJob
    /\ job_analysis = NoAnalysis
    /\ quality_issues = <<>>
    /\ top_jobs = <<>>
    /\ opportunities = <<>>
    /\ word_counts = <<>>
    /\ result = NoResult
    /\ district_wages = NoWages
    /\ now = 0
    /\ analysis = NoCategories
    /\ charts = NoCharts
    /\ report = NoReport
    /\ \E m \in BOOLEAN : ModuleLoaded(m)

NextMain == RegisterRoute \/ MainGuard \/ ModuleEnd \/ Dispatch(MaxRequests) \/ Shutdown

SpecMain == InitMain /\ [][NextMain]_vars

-----------------------------------------------------------------------------
(* Input lists long enough for the cohort caps *)

\* score 100: every signal present
JobTop100 ==
    MkJob(SomeTitle, Str(RichText), Absent, SomeWage, NoDict, SomeDeadline,
          NoDict, Absent, Absent)

\* score 80: a wage and a long description, nothing else
JobTop80 ==
    MkJob(SomeTitle, Str(<<"Fill201">>), Absent, SomeWage, NoDict, Absent,
          NoDict, Absent, Absent)

\* score 75: a wage, a description of 100..200 characters with one section
JobMid75 ==
    MkJob(SomeTitle, Str(<<"Fill100", "requirements">>), Absent, SomeWage, NoDict, Absent,
          NoDict, Absent, Absent)

\* score 50: no wage, a long description with one section
JobMid50 ==
    MkJob(SomeTitle, Str(<<"Fill201", "requirements">>), Absent, NoDict, NoDict, Absent,
          NoDict, Absent, Absent)

\* score 45: no wage, a description of 100..200 characters with contact text, a deadline
JobLow45 ==
    MkJob(SomeTitle, Str(<<"Fill150", "contact">>), Absent, NoDict, NoDict, SomeDeadline,
          NoDict, Absent, Absent)

\* score 10: nothing but a short description
JobLow10 ==
    MkJob(SomeTitle, Str(<<"Job", "available.">>), Absent, NoDict, NoDict, Absent,
          NoDict, Absent, Absent)

MixedPool == {JobTop100, JobTop80, JobMid75, JobMid50, JobLow45, JobLow10}

TopPool == {JobTop100, JobTop80}

OpportunityPool == {JobLow10, JobLow45}

\* the number of postings of an input list drawn from MixedPool
MaxMixedJobs == 4

\* in a long input list, the number of leading postings drawn from MixedPool
MaxVariedJobs == 1

\* the number of postings of a long input list
MaxLongJobs == 11

NextMixed == ScoreJob(MixedPool, MaxMixedJobs) \/ Finish

SpecMixed == Init /\ [][NextMixed]_vars

\* long lists: the leading postings are of any kind, the others score 80 or more
NextTop == ScoreJob(MixedPool, MaxVariedJobs) \/ ScoreJob(TopPool, MaxLongJobs) \/ Finish

SpecTop == Init /\ [][NextTop]_vars

\* long lists: the leading postings are of any kind, the others score below 50
NextOpportunity ==
    ScoreJob(MixedPool, MaxVariedJobs) \/ ScoreJob(OpportunityPool, MaxLongJobs) \/ Finish

SpecOpportunity == Init /\ [][NextOpportunity]_vars

-----------------------------------------------------------------------------
(* Properties of the scorer (Spec) *)

\* the records of the three working lists and of the returned report
StoredAnalyses ==
    Range(quality_issues) \cup Range(top_jobs) \cup Range(opportunities)
    \cup Range(result.top_performing_jobs) \cup Range(result.improvement_opportunities)
    \cup Range(result.quality_issues)

\* clamp(x, 0, 100), written out
Clamped(x) == IF x < 0 THEN 0 ELSE IF x > 100 THEN 100 ELSE x

\* C1: every stored quality_score is an integer in 0..100, and the score of the
\* posting just scored is 50 plus the sum of its adjustments, clamped to 0..100
C1_ScoreBounded ==
    /\ \A a \in StoredAnalyses : a.quality_score \in 0..100
    /\ jobs # <<>> =>
          /\ job_analysis.quality_score \in 0..100
          /\ job_analysis.quality_score = Clamped(50 + RawScore(job))

\* a posting with all six misspellings was scored and its sum fell below 0
C1_Witness ==
    /\ jobs # <<>>
    /\ Len(SpellingHits(TitleOf(job).s, DescriptionOf(job).s)) = 6
    /\ 50 + RawScore(job) < 0
    /\ job_analysis.quality_score = 0
    /\ job_analysis \in Range(opportunities)

\* the adjustments other than the one for the three sections
OtherDeltas(j) ==
    SpellingDelta(SpellingHits(TitleOf(j).s, DescriptionOf(j).s)) + WageDelta(j)
    + LengthDelta(DescriptionOf(j).s) + DeadlineDelta(j) + ContactDelta(DescriptionOf(j).s)

\* C2 as claimed: each section keyword found adds 10, each one missing takes 5
\* off the score and appends its issue entry
C2_SectionPenaltyClaim ==
    jobs # <<>> =>
       LET description == DescriptionOf(job).s
           found == {f \in Range(required_fields) : Contains(f, Lower(description))}
           missing == Range(required_fields) \ found
       IN  /\ job_analysis.quality_score =
                 Clamped(50 + OtherDeltas(job) + 10 * Cardinality(found)
                            - 5 * Cardinality(missing))
           /\ \A f \in missing : ("Missing section: " \o f) \in Range(job_analysis.issues)
           /\ \A f \in found : ("Missing section: " \o f) \notin Range(job_analysis.issues)

\* the posting of the scenario: no wage, "Job available.", no deadline, clean title
IsBarePosting(j) ==
    /\ DescriptionOf(j).s = <<"Job", "available.">>
    /\ j.wage = NoDict
    /\ j.compensation = NoDict
    /\ j.closingDate = Absent
    /\ SpellingHits(TitleOf(j).s, DescriptionOf(j).s) = <<>>

\* C3 as claimed: the bare posting scores 0 and has the wage and the deadline issue
C3_BarePostingClaim ==
    (jobs # <<>> /\ IsBarePosting(job)) =>
       /\ job_analysis.quality_score = 0
       /\ "Missing salary/wage information" \in Range(job_analysis.issues)
       /\ "No application deadline specified" \in Range(job_analysis.issues)

\* the posting of the scenario: wage amount, more than 200 characters, the three
\* sections, contact text, a deadline, no misspelling
IsCompletePosting(j) ==
    LET description == DescriptionOf(j).s
    IN  /\ j.wage.t = "dict" /\ j.wage.amount.t = "num" /\ j.wage.amount.n > 0
        /\ StrLen(description) > 200
        /\ \A f \in Range(required_fields) : Contains(f, Lower(description))
        /\ Contains("contact", Lower(description)) \/ Contains("email", Lower(description))
        /\ Truthy(Get(j.closingDate))
        /\ SpellingHits(TitleOf(j).s, description) = <<>>

\* C4: a complete posting scores exactly 100 (130 before clamping) and has no issue
C4_CompletePosting ==
    (jobs # <<>> /\ IsCompletePosting(job)) =>
       /\ 50 + RawScore(job) = 130
       /\ job_analysis.quality_score = 100
       /\ job_analysis.issues = <<>>
       /\ job_analysis \in Range(top_jobs)
       /\ job_analysis \notin Range(quality_issues)

\* a complete posting was scored
C4_Witness ==
    /\ jobs # <<>>
    /\ IsCompletePosting(job)
    /\ job_analysis.quality_score = 100
    /\ job_analysis.issues = <<>>

\* non-null, numeric and > 0
Qualifies(v) == v.t = "num" /\ v.n > 0

\* the resolution chain of the claims: wage.amount, wage.value, compensation.amount,
\* the first that qualifies; None when none does
ChainAmount(j) ==
    IF Qualifies(j.wage.amount) THEN j.wage.amount
    ELSE IF Qualifies(j.wage.value) THEN j.wage.value
    ELSE IF Qualifies(j.compensation.amount) THEN j.compensation.amount
    ELSE None

\* C5 as claimed: the wage strength (+20) applies exactly when the chain resolves
\* an amount, the wage issue (-20) exactly when it does not
C5_WageSignalClaim ==
    jobs # <<>> =>
       /\ ChainAmount(job) # None <=>
             /\ "v Includes salary/wage information" \in Range(job_analysis.reasons)
             /\ "Missing salary/wage information" \notin Range(job_analysis.issues)
       /\ ChainAmount(job) = None <=>
             /\ "Missing salary/wage information" \in Range(job_analysis.issues)
             /\ "v Includes salary/wage information" \notin Range(job_analysis.reasons)
       /\ job_analysis.quality_score =
             Clamped(50 + RawScore(job) - WageDelta(job)
                        + (IF ChainAmount(job) # None THEN 20 ELSE 0 - 20))

\* first non-empty of the AI category, department, positionType, "Unclassified"
ChainCategory(j) ==
    IF Truthy(j.aiClassification.category) THEN j.aiClassification.category
    ELSE IF Truthy(j.department) THEN j.department
    ELSE IF Truthy(j.positionType) THEN j.positionType
    ELSE Unclassified

\* C7 as claimed: the category of the scored-job record is the first non-empty
\* of AI category, department, positionType, and "Unclassified" otherwise
C7_CategoryClaim ==
    jobs # <<>> => job_analysis.category = ChainCategory(job)

-----------------------------------------------------------------------------
(* Properties of _compare_wages_to_nearby (SpecWages) *)

\* the postings of the input filed under the list named, in input order
FiledUnder(name) == SelectSeq(jobs, LAMBDA j : WageList(j) = name)

\* C6 as claimed: a posting is recorded with the first of wage.amount, wage.value,
\* compensation.amount that is non-null, numeric and > 0, and is left out exactly
\* when none of the three qualifies
C6_WageResolutionClaim ==
    \A name \in {"hourly", "salary", "stipend"} :
       LET filed == SelectSeq(FiledUnder(name), LAMBDA j : ChainAmount(j) # None)
       IN  /\ Len(district_wages[name]) = Len(filed)
           /\ \A i \in DOMAIN filed :
                 i \in DOMAIN district_wages[name]
                    => district_wages[name][i].amount = ChainAmount(filed[i])

-----------------------------------------------------------------------------
(* Properties of the cohorts (SpecTop, SpecOpportunity, SpecMixed) *)

\* the number of places of s that hold x
Count(x, s) == Cardinality({i \in DOMAIN s : s[i] = x})

\* the scored-job records of the input postings scoring at least 80, in input order
QualifyingTop ==
    SelectSeq([i \in DOMAIN jobs |-> JobAnalysis(jobs[i])],
              LAMBDA a : a.quality_score >= 80)

\* the scored-job records of the input postings scoring below 50, in input order
QualifyingOpportunities ==
    SelectSeq([i \in DOMAIN jobs |-> JobAnalysis(jobs[i])],
              LAMBDA a : a.quality_score < 50)

\* C8: top_performing_jobs holds only postings of the input scoring >= 80, in
\* descending order of score, at most 10 of them; a posting left out scores no
\* more than any one kept, and nothing is left out when at most 10 qualify
C8_TopPerforming ==
    pc = "done" =>
       \A top \in {result.top_performing_jobs}, qualifying \in {QualifyingTop} :
           /\ \A i \in DOMAIN top : top[i].quality_score >= 80
           /\ \A i, k \in DOMAIN top :
                 i < k => top[i].quality_score >= top[k].quality_score
           /\ Len(top) <= 10
           /\ Len(top) = Min(10, Len(qualifying))
           /\ \A r \in Range(top) : Count(r, top) <= Count(r, qualifying)
           /\ \A x \in Range(qualifying) :
                 Count(x, top) < Count(x, qualifying)
                    => \A r \in Range(top) : r.quality_score >= x.quality_score
           /\ Len(qualifying) <= 10
                 => \A x \in Range(qualifying) : Count(x, top) = Count(x, qualifying)

\* more than 10 postings qualified and one scoring less than a kept one was left out
C8_Witness ==
    /\ pc = "done"
    /\ Len(QualifyingTop) > 10
    /\ Len(result.top_performing_jobs) = 10
    /\ \E x \in Range(QualifyingTop), r \in Range(result.top_performing_jobs) :
          /\ Count(x, result.top_performing_jobs) < Count(x, QualifyingTop)
          /\ x.quality_score < r.quality_score

\* C9: improvement_opportunities holds only postings of the input scoring < 50,
\* in ascending order of score, at most 10 of them; a posting left out scores no
\* less than any one kept
C9_ImprovementOpportunities ==
    pc = "done" =>
       \A opps \in {result.improvement_opportunities},
          qualifying \in {QualifyingOpportunities} :
           /\ \A i \in DOMAIN opps : opps[i].quality_score < 50
           /\ \A i, k \in DOMAIN opps :
                 i < k => opps[i].quality_score <= opps[k].quality_score
           /\ Len(opps) <= 10
           /\ Len(opps) = Min(10, Len(qualifying))
           /\ \A r \in Range(opps) : Count(r, opps) <= Count(r, qualifying)
           /\ \A x \in Range(qualifying) :
                 Count(x, opps) < Count(x, qualifying)
                    => \A r \in Range(opps) : r.quality_score <= x.quality_score

\* more than 10 postings qualified and one scoring more than a kept one was left out
C9_Witness ==
    /\ pc = "done"
    /\ Len(QualifyingOpportunities) > 10
    /\ Len(result.improvement_opportunities) = 10
    /\ \E x \in Range(QualifyingOpportunities),
          r \in Range(result.improvement_opportunities) :
          /\ Count(x, result.improvement_opportunities) < Count(x, QualifyingOpportunities)
          /\ x.quality_score > r.quality_score

\* C10: no scored-job record is in both cohorts, in the working lists or in the
\* report; a posting scoring 50..79 is in neither cohort, and is in
\* quality_issues when its issues list is not empty
C10_CohortsDisjoint ==
    /\ Range(top_jobs) \cap Range(opportunities) = {}
    /\ Range(result.top_performing_jobs) \cap Range(result.improvement_opportunities) = {}
    /\ \A i \in DOMAIN jobs :
          LET a == JobAnalysis(jobs[i])
          IN  a.quality_score \in 50..79 =>
                 /\ a \notin Range(top_jobs) \cup Range(opportunities)
                 /\ a.issues # <<>> => a \in Range(quality_issues)
                 /\ pc = "done" =>
                       /\ a \notin Range(result.top_performing_jobs)
                       /\ a \notin Range(result.improvement_opportunities)
                       /\ a.issues # <<>> => a \in Range(result.quality_issues)

\* a report with both cohorts filled and a posting scoring 50..79 with issues
C10_Witness ==
    /\ pc = "done"
    /\ result.top_performing_jobs # <<>>
    /\ result.improvement_opportunities # <<>>
    /\ \E i \in DOMAIN jobs :
          /\ JobAnalysis(jobs[i]).quality_score \in 50..79
          /\ JobAnalysis(jobs[i]).issues # <<>>
          /\ JobAnalysis(jobs[i]) \in Range(result.quality_issues)

-----------------------------------------------------------------------------
(* Properties of the overall score (SpecMixed) and of single signals (Spec) *)

\* how often a posting's score enters all_scores: once with issues, once in a cohort
TimesCounted(a) ==
    (IF a.issues # <<>> THEN 1 ELSE 0)
    + (IF a.quality_score >= 80 \/ a.quality_score < 50 THEN 1 ELSE 0)

\* C14: overall_quality_score is the mean (kept to one decimal) of the scores of
\* quality_issues, top_jobs and opportunities put end to end, so a posting with
\* issues that is also in a cohort enters the mean twice
C14_OverallScorePopulation ==
    pc = "done" =>
       \A scored \in {[i \in DOMAIN jobs |-> JobAnalysis(jobs[i])]} :
          /\ result.overall_quality_score =
                RoundedMean(
                   SumSeq([i \in DOMAIN scored |->
                              scored[i].quality_score * TimesCounted(scored[i])]),
                   SumSeq([i \in DOMAIN scored |-> TimesCounted(scored[i])]))
          /\ Len(quality_issues) + Len(top_jobs) + Len(opportunities)
                = SumSeq([i \in DOMAIN scored |-> TimesCounted(scored[i])])

\* a posting with issues is also in a cohort, and the reported score differs from
\* the mean over all scored postings
C14_Witness ==
    /\ pc = "done"
    /\ \E a \in Range(quality_issues) : a \in Range(top_jobs) \cup Range(opportunities)
    /\ \A scored \in {[i \in DOMAIN jobs |-> JobAnalysis(jobs[i])]} :
          result.overall_quality_score #
             RoundedMean(SumSeq([i \in DOMAIN scored |-> scored[i].quality_score]),
                         Len(scored))

\* the issue entry of an entry of common_errors
SpellingIssue(e) == "Spelling: '" \o e[1] \o "' should be '" \o e[2] \o "'"

\* the misspelling occurs in the text, whatever the case of its letters
Occurs(wrong, text) == \E i \in DOMAIN text : wrong \in TokSubstrings(LowerTok(text[i]))

\* the adjustments other than the one for spelling
NonSpellingDeltas(j) ==
    WageDelta(j) + LengthDelta(DescriptionOf(j).s) + FieldsDelta(DescriptionOf(j).s)
    + DeadlineDelta(j) + ContactDelta(DescriptionOf(j).s)

\* C19: each entry of the dictionary that occurs, in any case, in the description
\* or the title costs 10 and has exactly one issue entry; the others have none
C19_Spelling ==
    jobs # <<>> =>
       LET occurring == {e \in Range(common_errors) :
                            \/ Occurs(e[1], DescriptionOf(job).s)
                            \/ Occurs(e[1], TitleOf(job).s)}
       IN  /\ \A e \in Range(common_errors) :
                 Count(SpellingIssue(e), job_analysis.issues)
                    = (IF e \in occurring THEN 1 ELSE 0)
           /\ job_analysis.quality_score =
                 Clamped(50 + NonSpellingDeltas(job) - 10 * Cardinality(occurring))

\* 'techer' and 'pricipal' in the description: two issue entries and 20 off a
\* score that is not clamped
C19_Witness ==
    /\ jobs # <<>>
    /\ SpellingHits(TitleOf(job).s, DescriptionOf(job).s)
          = << <<"techer", "teacher">>, <<"pricipal", "principal">> >>
    /\ Count("Spelling: 'techer' should be 'teacher'", job_analysis.issues) = 1
    /\ Count("Spelling: 'pricipal' should be 'principal'", job_analysis.issues) = 1
    /\ job_analysis.quality_score = 50 + NonSpellingDeltas(job) - 20
    /\ job_analysis.quality_score \in 1..99

\* the adjustments other than the one for the length of the description
NonLengthDeltas(j) ==
    SpellingDelta(SpellingHits(TitleOf(j).s, DescriptionOf(j).s)) + WageDelta(j)
    + FieldsDelta(DescriptionOf(j).s) + DeadlineDelta(j) + ContactDelta(DescriptionOf(j).s)

TooShort == "Description too short (< 100 characters)"

\* C20: fewer than 100 characters cost 15 and give the 'too short' issue, more
\* than 200 add 15 and give no issue, 100 to 200 change neither score nor issues
C20_DescriptionLength ==
    jobs # <<>> =>
       LET n == StrLen(DescriptionOf(job).s)
       IN  /\ n < 100 =>
                 /\ job_analysis.quality_score = Clamped(50 + NonLengthDeltas(job) - 15)
                 /\ Count(TooShort, job_analysis.issues) = 1
           /\ n > 200 =>
                 /\ job_analysis.quality_score = Clamped(50 + NonLengthDeltas(job) + 15)
                 /\ TooShort \notin Range(job_analysis.issues)
           /\ (n >= 100 /\ n <= 200) =>
                 /\ job_analysis.quality_score = Clamped(50 + NonLengthDeltas(job))
                 /\ TooShort \notin Range(job_analysis.issues)

\* a description of exactly 200 characters was scored, with a score that is not clamped
C20_Witness ==
    /\ jobs # <<>>
    /\ StrLen(DescriptionOf(job).s) = 200
    /\ job_analysis.quality_score = 50 + NonLengthDeltas(job)
    /\ job_analysis.quality_score \in 1..99
    /\ TooShort \notin Range(job_analysis.issues)

-----------------------------------------------------------------------------
(* The category aggregator and the category chart *)

Analyzed == pc \in {"analyzed", "charted", "done"}

Charted == pc \in {"charted", "done"}

\* the distinct elements of a sequence in the order of their first occurrence
RECURSIVE DistinctInOrder(_)
DistinctInOrder(s) ==
    IF s = <<>> THEN <<>>
    ELSE LET d == DistinctInOrder(Front(s))
         IN  IF Last(s) \in Range(d) THEN d ELSE Append(d, Last(s))

ResolvedCategories == [i \in DOMAIN jobs |-> ChainCategory(jobs[i])]

Descending(s) == \A i, k \in DOMAIN s : i < k => s[i] >= s[k]

GroupCategories == [i \in DOMAIN analysis.by_category |-> analysis.by_category[i].category]

GroupCounts == [i \in DOMAIN analysis.by_category |-> analysis.by_category[i].count]

GroupAverages == [i \in DOMAIN analysis.by_category |-> analysis.by_category[i].avg_days_open]

GroupsHolding(x) ==
    {g \in DOMAIN analysis.by_category : x \in Range(analysis.by_category[g].jobs)}

\* C13: every posting is in exactly one category group, the group of its
\* resolved category; the counts add up to the number of postings and
\* total_categories is the number of distinct resolved categories
C13_Partition ==
    Analyzed =>
        /\ \A i \in DOMAIN jobs :
              /\ Cardinality(GroupsHolding(jobs[i])) = 1
              /\ \A g \in GroupsHolding(jobs[i]) :
                    /\ analysis.by_category[g].category = ChainCategory(jobs[i])
                    /\ Count(jobs[i], analysis.by_category[g].jobs) = Count(jobs[i], jobs)
        /\ \A g \in DOMAIN analysis.by_category :
              analysis.by_category[g].count = Len(analysis.by_category[g].jobs)
        /\ SumSeq(GroupCounts) = Len(jobs)
        /\ analysis.total_categories = Cardinality(Range(ResolvedCategories))

\* three postings in two categories
C13_Witness ==
    /\ Analyzed
    /\ Len(jobs) = 3
    /\ analysis.total_categories = 2
    /\ SumSeq(GroupCounts) = 3

\* C16: for an empty list of postings the three analyses return without
\* failing: both averages are 0, the cohorts and quality_issues are empty,
\* by_category is empty with total_categories 0, the chart has no labels or values
C16_EmptyList ==
    (pc = "done" /\ now \in Clock /\ jobs = <<>>) =>
        /\ result.overall_quality_score = 0
        /\ result.avg_word_count = 0
        /\ result.total_jobs_analyzed = 0
        /\ result.top_performing_jobs = <<>>
        /\ result.improvement_opportunities = <<>>
        /\ result.quality_issues = <<>>
        /\ analysis.by_category = <<>>
        /\ analysis.total_categories = 0
        /\ charts.pie_chart.labels = <<>>
        /\ charts.pie_chart.values = <<>>

\* the three analyses have run on the empty list
C16_Witness ==
    /\ pc = "done"
    /\ now \in Clock
    /\ jobs = <<>>
    /\ result = QualityReport(<<>>, <<>>, <<>>, <<>>, <<>>)
    /\ analysis = AnalyzeJobsForHR(<<>>, now)
    /\ charts = GenerateChartData(<<>>)

\* datePosted is present and denotes an instant
ValidDate(j) ==
    \/ j.datePosted.t = "date"
    \/ j.datePosted.t = "str" /\ IsIso(j.datePosted.s)

\* whole days between the posting instant and the evaluation instant
WholeDays(j) ==
    Days(now, IF j.datePosted.t = "date" THEN j.datePosted.n
              ELSE FromIsoformat(j.datePosted.s))

\* the validly dated postings of a group
Dated(group) == SelectSeq(group.jobs, ValidDate)

TotalDays(group) == SumSeq([i \in DOMAIN Dated(group) |-> WholeDays(Dated(group)[i])])

\* a (in tenths) is total / count rounded to one decimal
IsRounded(a, total, count) ==
    /\ 2 * (a * count - 10 * total) <= count
    /\ 2 * (10 * total - a * count) <= count

\* C17: avg_days_open of a category is the mean, rounded to one decimal, of
\* the whole days open of its validly dated postings only; it is 0 when the
\* category has none
C17_AverageDaysOpen ==
    Analyzed =>
        \A g \in DOMAIN analysis.by_category :
           \A group \in {analysis.by_category[g]} :
              IF Dated(group) = <<>>
              THEN group.avg_days_open = 0
              ELSE IsRounded(group.avg_days_open, TotalDays(group), Len(Dated(group)))

\* one category mixes dated and undated postings and its mean is not the one
\* that counts the undated postings as zero; another category has no valid date
C17_Witness ==
    /\ Analyzed
    /\ \E g \in DOMAIN analysis.by_category :
          \E group \in {analysis.by_category[g]} :
             /\ Dated(group) # <<>>
             /\ Len(Dated(group)) < Len(group.jobs)
             /\ ~IsRounded(group.avg_days_open, TotalDays(group), Len(group.jobs))
             /\ IsRounded(group.avg_days_open, TotalDays(group), Len(Dated(group)))
    /\ \E g \in DOMAIN analysis.by_category :
          /\ Dated(analysis.by_category[g]) = <<>>
          /\ analysis.by_category[g].avg_days_open = 0

\* C18 as stated: every category metrics entry has count >= 1 and
\* avg_days_open >= 0, also when a posting is dated after the evaluation instant
C18_NonNegativeClaim ==
    Analyzed =>
        \A g \in DOMAIN analysis.by_category :
           /\ analysis.by_category[g].count >= 1
           /\ analysis.by_category[g].avg_days_open >= 0

-----------------------------------------------------------------------------
(* The report run *)

\* C15 as stated: a run over postings of which some have a null or wrong-typed
\* wage, aiClassification, description, fullDescription or title still returns
\* a report, never the error outcome
C15_MalformedTolerated ==
    (pc = "returned" /\ jobs # <<>>) => "error" \notin DOMAIN report

-----------------------------------------------------------------------------
(* Scoring as a function of the posting *)

\* the positions of the list whose posting, scored on its own, lands in a collection
LandsIn(collection) ==
    {i \in DOMAIN jobs : ScoreAll(<<jobs[i]>>)[collection] # <<>>}

\* C21: the record a posting gets in a run over the whole list (score, issues,
\* reasons) is the record it gets when it is scored alone, whatever the
\* evaluation instant and the postings around it
C21_Deterministic ==
    pc = "done" =>
        /\ \A i \in DOMAIN jobs :
              \A alone \in {ScoreAll(<<jobs[i]>>)} :
                 /\ Range(alone.quality_issues) \subseteq Range(quality_issues)
                 /\ Range(alone.top_jobs) \subseteq Range(top_jobs)
                 /\ Range(alone.opportunities) \subseteq Range(opportunities)
        /\ Len(quality_issues) = Cardinality(LandsIn("quality_issues"))
        /\ Len(top_jobs) = Cardinality(LandsIn("top_jobs"))
        /\ Len(opportunities) = Cardinality(LandsIn("opportunities"))

\* the same posting scored first and third, a different one in between
C21_Witness ==
    /\ pc = "done"
    /\ Len(jobs) = 3
    /\ jobs[1] = jobs[3]
    /\ jobs[2] # jobs[1]
    /\ Len(quality_issues) = 3
    /\ quality_issues[1] = quality_issues[3]
    /\ quality_issues[2].quality_score # quality_issues[1].quality_score

-----------------------------------------------------------------------------
(* Chart colors *)

\* the label is a key of the fixed palette
InPalette(label) == \E k \in DOMAIN color_map : label = Str(<<color_map[k][1]>>)

\* C22 as stated: a label of the fixed palette has its fixed color, and two
\* distinct labels outside the palette at adjacent positions differ in color
C22_CyclingClaim ==
    Charted =>
        \A pie \in {charts.pie_chart} :
           /\ \A i \in DOMAIN pie.labels :
                 \A k \in DOMAIN color_map :
                    pie.labels[i] = Str(<<color_map[k][1]>>) => pie.colors[i] = color_map[k][2]
           /\ \A i \in DOMAIN pie.labels :
                 (/\ i + 1 \in DOMAIN pie.labels
                  /\ ~InPalette(pie.labels[i])
                  /\ ~InPalette(pie.labels[i + 1])) => pie.colors[i] # pie.colors[i + 1]

\* C22: a label of the fixed palette has its fixed color and every other label
\* has the one default color "#95A5A6", whatever its position
C22_FixedOrDefault ==
    Charted =>
        \A pie \in {charts.pie_chart} :
           /\ Len(pie.colors) = Len(pie.labels)
           /\ \A i \in DOMAIN pie.labels :
                 /\ \A k \in DOMAIN color_map :
                       pie.labels[i] = Str(<<color_map[k][1]>>) => pie.colors[i] = color_map[k][2]
                 /\ ~InPalette(pie.labels[i]) => pie.colors[i] = "#95A5A6"

\* a palette label followed by two distinct labels outside the palette
C22_Witness ==
    /\ Charted
    /\ Len(charts.pie_chart.labels) = 3
    /\ charts.pie_chart.labels[1] = Str(<<"Custodial">>)
    /\ charts.pie_chart.colors[1] = "#02223C"
    /\ ~InPalette(charts.pie_chart.labels[2])
    /\ ~InPalette(charts.pie_chart.labels[3])
    /\ charts.pie_chart.colors[2] = charts.pie_chart.colors[3]

-----------------------------------------------------------------------------
(* The order of the issues of a posting *)

\* every issue the scorer can raise, in the order of the signal table
IssueTable ==
    <<"Spelling: 'techer' should be 'teacher'",
      "Spelling: 'adminstrator' should be 'administrator'",
      "Spelling: 'assitant' should be 'assistant'",
      "Spelling: 'pricipal' should be 'principal'",
      "Spelling: 'secratary' should be 'secretary'",
      "Spelling: 'libraian' should be 'librarian'",
      "Missing salary/wage information",
      "Description too short (< 100 characters)",
      "Missing section: qualifications",
      "Missing section: requirements",
      "Missing section: responsibilities",
      "No application deadline specified">>

\* C23: the issues of a scored posting are entries of the signal table, each at
\* most once, in table order: spelling, wage, length, sections, deadline
C23_IssueOrder ==
    jobs # <<>> =>
        job_analysis.issues =
            SelectSeq(IssueTable, LAMBDA issue : issue \in Range(job_analysis.issues))

\* a posting with issues of all five kinds, two of them spelling entries
C23_Witness ==
    /\ jobs # <<>>
    /\ Len(job_analysis.issues) = 8
    /\ job_analysis.issues[1] = IssueTable[1]
    /\ job_analysis.issues[2] = IssueTable[4]
    /\ job_analysis.issues[3] = IssueTable[7]
    /\ job_analysis.issues[4] = IssueTable[8]
    /\ job_analysis.issues[8] = IssueTable[12]

-----------------------------------------------------------------------------
(* The value returned by a report run *)

\* the run has reached its return statement
Returned == pc = "returned" /\ "error" \notin DOMAIN report

\* neither an ObjectId nor a datetime, nor a dict that holds one
Plain(v) ==
    /\ v.t \notin {"oid", "date"}
    /\ v.t = "dict" => \A f \in DOMAIN v \ {"t"} : v[f].t \notin {"oid", "date"}

PlainJob(j) == \A f \in DOMAIN j : Plain(j[f])

\* the scored-posting records of the quality report
ReportEntries ==
    Range(report.quality_report.top_performing_jobs)
    \cup Range(report.quality_report.improvement_opportunities)
    \cup Range(report.quality_report.quality_issues)

\* C24: the returned result holds no ObjectId and no datetime, at any depth,
\* and converting it once more changes nothing
C24_PlainResult ==
    Returned =>
        /\ \A g \in DOMAIN report.analysis.by_category :
              /\ Plain(report.analysis.by_category[g].category)
              /\ \A i \in DOMAIN report.analysis.by_category[g].jobs :
                    PlainJob(report.analysis.by_category[g].jobs[i])
        /\ \A i \in DOMAIN report.charts.pie_chart.labels :
              Plain(report.charts.pie_chart.labels[i])
        /\ \A e \in ReportEntries : Plain(e.category)
        /\ \A i \in DOMAIN report.quality_report.unscraped_jobs :
              PlainJob(report.quality_report.unscraped_jobs[i])
        /\ ConvertResult(report) = report

\* a posting with ObjectIds, a datetime and a datetime inside a dict was
\* reported, and the result shows their strings
C24_Witness ==
    /\ Returned
    /\ \E i \in DOMAIN jobs :
          /\ "_id" \in DOMAIN jobs[i]
          /\ jobs[i]["_id"].t = "oid"
          /\ jobs[i].datePosted.t = "date"
          /\ "classifiedAt" \in DOMAIN jobs[i].aiClassification
          /\ jobs[i].aiClassification.classifiedAt.t = "date"
    /\ \E g \in DOMAIN report.analysis.by_category :
          \E j \in Range(report.analysis.by_category[g].jobs) :
             /\ "_id" \in DOMAIN j
             /\ j["_id"] = Str(<<"000000000000000000000011">>)
             /\ j.datePosted = Str(<<"2026-11-01T00:00:00">>)
             /\ j.aiClassification.classifiedAt = Str(<<"2026-11-02T12:00:00">>)

-----------------------------------------------------------------------------
(* What the three analyses write *)

\* the values a step of the named function may write: its own return value
\* and the locals it is built from
OutputsOf(function) ==
    CASE function = "_analyze_jobs_for_hr" -> <<now, analysis>>
      [] function = "_generate_chart_data" -> <<charts>>
      [] function = "_generate_quality_report" ->
             <<job_analysis, quality_issues, top_jobs, opportunities, word_counts, result>>

\* the function that runs from a control point
RunsAt(point) ==
    CASE point = "loop" -> "_analyze_jobs_for_hr"
      [] point = "analyzed" -> "_generate_chart_data"
      [] point = "charted" -> "_generate_quality_report"

\* C25: a step of _analyze_jobs_for_hr, _generate_chart_data or
\* _generate_quality_report leaves the list of postings and every posting as
\* they were, and changes nothing but its own return value: what the other two
\* functions returned, and every other value a later call reads, stays the same
C25_InputsUnchanged ==
    [][pc' # pc =>
          /\ jobs' = jobs
          /\ job' = job
          /\ report' = report
          /\ district_wages' = district_wages
          /\ \A function \in {"_analyze_jobs_for_hr", "_generate_chart_data",
                                "_generate_quality_report"} \ {RunsAt(pc)} :
                OutputsOf(function)' = OutputsOf(function)]_vars

\* the three functions have run on a list of three postings of two categories,
\* which is still the list that was passed in
C25_Witness ==
    /\ pc = "done"
    /\ Len(jobs) = 3
    /\ analysis = AnalyzeJobsForHR(jobs, now)
    /\ analysis.total_categories = 2
    /\ charts = GenerateChartData(jobs)
    /\ Len(result.quality_issues) = 3
    /\ \A g \in DOMAIN analysis.by_category :
          Range(analysis.by_category[g].jobs) \subseteq Range(jobs)

-----------------------------------------------------------------------------
(* Postings without issues *)

\* C26: a scored posting without issues has score 100; so every scored posting
\* is in quality_issues or in top_jobs, none has no issue and a score of
\* 50..79, and every posting has a part in the overall average
C26_NoIssuesMeans100 ==
    jobs # <<>> =>
        /\ job_analysis.issues = <<>> => job_analysis.quality_score = 100
        /\ ~(job_analysis.issues = <<>> /\ job_analysis.quality_score \in 50..79)
        /\ job_analysis \in Range(quality_issues) \cup Range(top_jobs)
        /\ \A a \in Range(top_jobs) \cup Range(opportunities) \cup Range(quality_issues) :
              a.issues = <<>> => a.quality_score = 100
        /\ Len(AllScores(quality_issues, top_jobs, opportunities)) >= Len(jobs)

\* a posting without issues whose adjustments add up to the least possible,
\* 20 + 30 + 10: a description of 100 to 200 characters without contact words
C26_Witness ==
    /\ jobs # <<>>
    /\ job_analysis.issues = <<>>
    /\ RawScore(job) = 60
    /\ job_analysis.quality_score = 100
    /\ job_analysis \in Range(top_jobs)
    /\ job_analysis \notin Range(quality_issues)

-----------------------------------------------------------------------------
(* The postings a report run scores *)

MissingWage == "Missing salary/wage information"

\* C27: the postings with and without wage data add up to all postings, the
\* quality report is made of the postings with wage data only, and so none of
\* its scored postings has the missing-wage issue
C27_WageSplit ==
    Returned =>
        /\ report.total_jobs = Len(jobs)
        /\ report.jobs_with_wage_data + report.jobs_without_wage_data = report.total_jobs
        /\ report.quality_report.total_jobs_analyzed = report.jobs_with_wage_data
        /\ report.quality_report.unscraped_jobs_count = report.jobs_without_wage_data
        /\ \A e \in ReportEntries : MissingWage \notin Range(e.issues)

\* a run over one posting with wage data, which has other issues, and one without
C27_Witness ==
    /\ Returned
    /\ report.total_jobs = 2
    /\ report.jobs_with_wage_data = 1
    /\ report.jobs_without_wage_data = 1
    /\ Len(report.quality_report.quality_issues) = 1
    /\ Len(report.quality_report.unscraped_jobs) = 1

-----------------------------------------------------------------------------
(* One category per posting across the three analyses *)

\* C28 as stated: the category on the scored-job record of a posting is the
\* category of the group the aggregator puts the posting in, and a label the
\* chart counts
C28_SameCategory ==
    (pc = "done" /\ jobs # <<>>) =>
        /\ \E g \in DOMAIN analysis.by_category :
              /\ analysis.by_category[g].category = job_analysis.category
              /\ Last(jobs) \in Range(analysis.by_category[g].jobs)
        /\ job_analysis.category \in Range(charts.pie_chart.labels)

\* C29: the labels of the pie chart are the category keys of the aggregator in
\* the same order, and the value of each label is the count of its category
C29_ChartMatchesAnalysis ==
    Charted =>
        /\ charts.pie_chart.labels = GroupCategories
        /\ charts.pie_chart.values = GroupCounts

\* three postings in two categories, the first of them resolved from positionType
C29_Witness ==
    /\ Charted
    /\ charts.pie_chart.labels = <<Str(<<"Bus Driver">>), Str(<<"Teacher">>)>>
    /\ charts.pie_chart.values = <<1, 2>>
    /\ GroupCounts = <<1, 2>>

(* C30: when app.py runs as the main script, /api/generate-hr-report and
   /api/download-hr-report-pdf are registered before the server serves, so
   a POST to either is dispatched to its handler. *)
C30_HRRoutesServed ==
    main_script =>
        /\ flask_pc = "serving" =>
              \A path \in {HRReportRequest.path, HRPdfRequest.path} :
                  \E r \in url_map : r.rule = path
        /\ \A i \in 1..Len(served) :
              /\ served[i].request = HRReportRequest
                    => served[i].endpoint = "generate_hr_report_endpoint"
              /\ served[i].request = HRPdfRequest
                    => served[i].endpoint = "download_hr_report_pdf"

=============================================================================
